---- MODULE Spec2Model ----
(***************************************************************************)
(* CSV_Plotter: the zoom/hover coordinator (SyncService), the CSV load     *)
(* path (CsvService.parseFile, AppComponent), the views that follow the    *)
(* shared window (MapComponent, ChartComponent), the throttled hover       *)
(* pipeline and the overview decimation of the line chart.                 *)
(*                                                                         *)
(* Time is counted in milliseconds.  Timestamps of records are small       *)
(* integers (0..MaxT); a Date is modelled by its getTime() value.          *)
(***************************************************************************)
EXTENDS Integers, Sequences, FiniteSets, TLC

\* ---------------------------------------------------------------- bounds
MaxT      == 2    \* record timestamps and zoom endpoints range over 0..MaxT
MaxLog    == 3    \* zoom calls (emitZoom + clearZoom) recorded per behaviour
MaxHover  == 2    \* emitHover calls recorded per behaviour
NumProbes == 2    \* views created late, each subscribing to hover$ and zoom$
MaxClock  == 5    \* hover pipeline: clock steps observed
MaxMoves  == 3    \* hover pipeline: mousemove events observed
SmallLen  == 60   \* decimation: every input length 1..SmallLen is tried
MaxMult   == 3    \* decimation: lengths around k*2000 for k in 1..MaxMult
MaxDelta  == 3    \* decimation: ... within MaxDelta of each multiple
ScenarioLen == 5000 \* decimation: the 5000-record data set
MaxEdge   == 8    \* zoomed line: window endpoints at 0, 500, ..., MaxEdge*500 (and one above each)
MaxRows         == 4     \* data rows of a one-column text
MaxExoticRows   == 2     \* data rows of a text with unusual cells
MaxHeaders      == 3     \* headers of a header line
MaxInstant      == 3     \* zoom out: time values range over -MaxInstant..MaxInstant

\* ------------------------------------------------------- program constants
ZoomDebounceMs  == 50    \* MapComponent zoom$ debounce
ChangeDelayMs   == 50    \* MapComponent.ngOnChanges delay
ResetFlagMs     == 150   \* MapComponent.updatePathForTimeRange flag reset
InvalidateMs    == 200   \* MapComponent.initMap invalidateSize delay
DupToleranceMs  == 1000  \* MapComponent duplicate-zoom tolerance
ThrottleMs      == 50    \* throttleTime(50) of both charts
OverviewLimit   == 2000  \* ChartComponent.decimateData: longest data set kept whole
OverviewTarget  == 2000  \* ChartComponent.decimateData targetPoints
ZoomLimit       == 1000  \* ChartComponent.applyZoom: most visible points drawn whole
ZoomTarget      == 1000  \* ChartComponent.applyZoom: divisor of the zoom step
NumColors       == 15    \* DEFAULT_COLORS.length

\* ------------------------------------------------------------- JS values
NULL  == [kind |-> "null"]        \* JavaScript null

Times == 0..MaxT

Max(a, b) == IF a >= b THEN a ELSE b
Min(a, b) == IF a <= b THEN a ELSE b
Abs(a)    == IF a < 0 THEN 0 - a ELSE a

\* TimeRange {start, end} (data.model.ts); requested ranges have start <= end
TimeRange(s, e) == [start |-> s, end |-> e]
TimeRanges == {TimeRange(s, e) : s \in Times, e \in Times}
RequestedRanges == {r \in TimeRanges : r.start <= r.end}

RECURSIVE SortedSeq(_)
SortedSeq(S) ==
    IF S = {} THEN <<>>
    ELSE LET m == CHOOSE x \in S : \A y \in S : x <= y
         IN  <<m>> \o SortedSeq(S \ {m})

\* A parsed file: its records (one timestamp each, ascending as in the file)
\* and the header of its single plottable column.
Columns == {"temp", "status"}
Files == {[recs |-> SortedSeq(S), col |-> c] : S \in SUBSET Times, c \in Columns}
NoFile == [recs |-> <<>>, col |-> "none"]

SampleMs    == DupToleranceMs     \* milliseconds between two consecutive timestamps of Times
TickMs      == ZoomDebounceMs     \* one step of the timer clock: the shortest delay
HoverTickMs == ThrottleMs \div 2   \* one step of the hover clock
getTime(t) == t * SampleMs

Probes == 1..NumProbes

\* ---------------------------------------------------------------- state
VARIABLES
    \* SyncService
    dataBounds,             \* TimeRange | null
    zoomSubject,            \* BehaviorSubject<TimeRange | null>: its current value
    zoomSubs, hoverSubs,    \* observers registered on zoom$ / hover$ (besides the views)
    zoomRecv, hoverRecv,    \* what each of those observers has been handed, in order
    zoomLog, hoverLog,      \* history: the values passed to zoomSubject.next / hoverSubject.next
    zoomJoin, hoverJoin,    \* history: length of the log when the observer subscribed
    \* CsvService
    dataSubject, metadataSubject, availableFieldsSubject,
    \* AppComponent
    appData, availableFields,
    dataCbSaw, fieldsCbSaw, \* history: whose columns the three subjects described while each observer ran
    \* MapComponent
    mapData, isInitialized, isUpdatingZoom, lastZoomTimeRange, pathPolyline,
    timers,                 \* pending setTimeout callbacks, in creation order
    \* ChartComponent
    svg, chartData, currentTimeRange, xDomain,
    \* chart hover pipeline (mouseMoveSubject$ | throttleTime(50))
    hoverClock, throttleLeft, moveLog, recomputeLog,
    leaveAt,                \* <<t>> once mouseleave has run at t with no mousemove since, else <<>>
    \* ChartComponent.decimateData
    decData, decimatedData,
    \* results of the computations that are followed on their own
    redecimated,            \* decimateData applied to decimatedData
    finalData,              \* ChartComponent.applyZoom: the points of the drawn line
    lookupDate, closest,    \* nearest-point lookup: query instant and closestPoint
    csvText, parseResult,   \* CsvService.parseCsv: its input and what it returns
    segField, segments, nullGaps,  \* StateChartComponent.createStateSegments
    lineGaps,               \* ChartComponent.drawNullGaps: the field and its gaps
    \* StateChartComponent: <<>> until it is created, then <<[data, currentTimeRange, error]>>
    stateChart

syncVars  == <<dataBounds, zoomSubject>>
probeVars == <<zoomSubs, hoverSubs, zoomRecv, hoverRecv, zoomJoin, hoverJoin>>
zoomHist  == <<zoomLog>>
hoverHist == <<hoverLog>>
csvVars   == <<dataSubject, metadataSubject, availableFieldsSubject>>
appVars   == <<appData, availableFields, dataCbSaw, fieldsCbSaw>>
mapVars   == <<mapData, isInitialized, isUpdatingZoom, lastZoomTimeRange, pathPolyline, timers>>
chartVars == <<svg, chartData, currentTimeRange, xDomain>>
pipeVars  == <<hoverClock, throttleLeft, moveLog, recomputeLog, leaveAt>>
decVars   == <<decData, decimatedData>>
calcVars  == <<redecimated, finalData, lookupDate, closest, csvText, parseResult,
               segField, segments, nullGaps, lineGaps>>

stateVars == <<stateChart>>

vars == <<syncVars, probeVars, zoomHist, hoverHist, csvVars, appVars, mapVars,
          chartVars, pipeVars, decVars, calcVars, stateVars>>

\* ------------------------------------------------------------- helpers
RECURSIVE SeqMin(_)
SeqMin(q) == IF Len(q) = 1 THEN q[1] ELSE Min(q[1], SeqMin(Tail(q)))
RECURSIVE SeqMax(_)
SeqMax(q) == IF Len(q) = 1 THEN q[1] ELSE Max(q[1], SeqMax(Tail(q)))

\* d3.extent(this.data, d => d.datetime): [undefined, undefined] on an empty array
UndefExtent == [kind |-> "undefined-extent"]
Extent(data) == IF data = <<>> THEN UndefExtent
                ELSE TimeRange(SeqMin(data), SeqMax(data))

\* this.data.filter(point => point.datetime >= timeRange.start && point.datetime <= timeRange.end)
InRange(data, r) == SelectSeq(data, LAMBDA t : t >= r.start /\ t <= r.end)

\* Subject.next(v): every registered observer is handed v, synchronously
DeliverToFirst(recv, subs, v) ==
    [p \in Probes |-> IF p \in subs /\ (\A q \in subs : p <= q)
                      THEN Append(recv[p], v) ELSE recv[p]]
Deliver(recv, subs, v) ==
    [p \in Probes |-> IF p \in subs THEN Append(recv[p], v) ELSE recv[p]]

\* --------------------------------------------------- MapComponent pieces
Timer(kind, ms, range) == [kind |-> kind, left |-> ms \div TickMs, range |-> range]
\* two ngOnChanges callbacks due at the same instant run back to back and
\* draw the same path: one entry stands for both
AddTimer(ts, t) == IF ts # <<>> /\ ts[Len(ts)] = t THEN ts ELSE Append(ts, t)
RECURSIVE Compact(_)
Compact(ts) == IF Len(ts) <= 1 THEN ts
               ELSE AddTimer(Compact(SubSeq(ts, 1, Len(ts) - 1)), ts[Len(ts)])
\* clearTimeout of every pending timer of one kind
DropKind(ts, kind) == Compact(SelectSeq(ts, LAMBDA t : t.kind # kind))

\* the "same time range as the last one" test of the zoom$ callback
IsDuplicateZoom(last, r) ==
    /\ last # NULL
    /\ Abs(getTime(last.start) - getTime(r.start)) < DupToleranceMs
    /\ Abs(getTime(last.end) - getTime(r.end)) < DupToleranceMs

\* updatePath(): draws every record; returns early on an empty data set
updatePath(data, path) == IF data = <<>> THEN path ELSE data

\* timers left by the zoom$ callback of the map for value v
MapZoomTimers(v, ts, updating, last) ==
    LET pending == DropKind(ts, "zoom")      \* clearTimeout(this.zoomTimeout)
    IN  IF v = NULL THEN pending
        ELSE IF updating THEN pending
        ELSE IF IsDuplicateZoom(last, v) THEN pending
        ELSE Append(pending, Timer("zoom", ZoomDebounceMs, v))

\* path left by the zoom$ callback of the map for value v
MapZoomPath(v, data, path) == IF v = NULL THEN updatePath(data, path) ELSE path

\* the zoom$ subscription of the map, when it is subscribed
MapZoomNext(v) ==
    IF ~isInitialized THEN UNCHANGED <<isUpdatingZoom, lastZoomTimeRange, pathPolyline, timers>>
    ELSE /\ timers' = MapZoomTimers(v, timers, isUpdatingZoom, lastZoomTimeRange)
         /\ pathPolyline' = MapZoomPath(v, mapData, pathPolyline)
         /\ UNCHANGED <<isUpdatingZoom, lastZoomTimeRange>>

\* ------------------------------------------------- ChartComponent pieces
\* applyZoom / resetZoom as far as the x-domain goes.  Every emission hands
\* the observers a freshly allocated TimeRange, so the reference test
\* timeRange !== this.currentTimeRange is true for a non-null value.
ChartDomain(v, data) == IF v # NULL THEN v ELSE Extent(data)
\* resetZoom throws on an empty data set before it clears currentTimeRange
ChartCurrent(v, data, cur) ==
    IF v # NULL THEN v ELSE IF data = <<>> THEN cur ELSE NULL

ChartZoomNext(v) ==
    IF ~svg THEN UNCHANGED <<currentTimeRange, xDomain>>
    ELSE /\ xDomain' = ChartDomain(v, chartData)
         /\ currentTimeRange' = ChartCurrent(v, chartData, currentTimeRange)

\* ------------------------------------------------------ StateChartComponent
\* the zoom$ observer of subscribeToSync.  applyZoom ends in
\* createStateSegments, which reads data[0] and throws on an empty data set;
\* resetZoom reads timeExtent[1].getTime() of d3.extent(data), which throws
\* on an empty data set, before it clears currentTimeRange.  A window sent
\* by emitZoom is never the object the view holds.
StateChartObserver(sc, v) ==
    IF v # NULL
    THEN [sc EXCEPT !.currentTimeRange = v, !.error = @ \/ sc.data = <<>>]
    ELSE IF sc.data = <<>> THEN [sc EXCEPT !.error = TRUE]
    ELSE [sc EXCEPT !.currentTimeRange = NULL]

StateChartZoomNext(v) ==
    stateChart' = IF stateChart = <<>> THEN stateChart
                  ELSE <<StateChartObserver(stateChart[1], v)>>

\* ----------------------------------------------------------- SyncService
\* the clamp of emitZoom
ClampZoomNone(timeRange, bounds) == timeRange
ClampZoom(timeRange, bounds) ==
    IF bounds # NULL
    THEN TimeRange(Max(timeRange.start, bounds.start), Min(timeRange.end, bounds.end))
    ELSE timeRange

\* zoomSubject.next(v), with the subscriptions of the views
ZoomNext(v) ==
    /\ zoomSubject' = v
    /\ zoomRecv' = Deliver(zoomRecv, zoomSubs, v)
    /\ MapZoomNext(v)
    /\ StateChartZoomNext(v)
    /\ ChartZoomNext(v)
    /\ UNCHANGED <<dataBounds, zoomSubs, hoverSubs, hoverRecv, zoomJoin, hoverJoin,
                   hoverHist, csvVars, appVars, mapData, isInitialized, svg, chartData,
                   pipeVars, decVars, calcVars>>

emitZoom(timeRange) == ZoomNext(ClampZoom(timeRange, dataBounds))

clearZoom == ZoomNext(NULL)

\* the two calls, without and with the history of the values sent
EmitZoom(timeRange) == emitZoom(timeRange) /\ UNCHANGED zoomHist
ClearZoom == clearZoom /\ UNCHANGED zoomHist
LoggedZoom == Len(zoomLog) < MaxLog /\ zoomLog' = Append(zoomLog, zoomSubject')
LoggedEmitZoom(timeRange) == emitZoom(timeRange) /\ LoggedZoom
LoggedClearZoom == clearZoom /\ LoggedZoom

getCurrentZoom == zoomSubject

\* ------------------------------------------- FieldSelectorComponent
\* new Date(v) for v = twice / 2: a time value that is not whole is
\* truncated toward zero
NewDateOfHalf(twice) == IF twice >= 0 THEN twice \div 2 ELSE 0 - ((0 - twice) \div 2)

\* onZoomOut: the current window grows by half its span on each side and
\* goes through emitZoom; nothing happens when there is no window.  The
\* start and end of a window are Date time values here.
onZoomOutInward ==
    LET currentZoom == getCurrentZoom
    IN  IF currentZoom # NULL
        THEN LET currentSpan == currentZoom.end - currentZoom.start
                 newStart == NewDateOfHalf(2 * currentZoom.start + currentSpan)
                 newEnd   == NewDateOfHalf(2 * currentZoom.end - currentSpan)
             IN  emitZoom(TimeRange(newStart, newEnd))
        ELSE UNCHANGED <<syncVars, probeVars, hoverHist, csvVars, appVars, mapVars,
                         chartVars, pipeVars, decVars, calcVars, stateVars>>
onZoomOut ==
    LET currentZoom == getCurrentZoom
    IN  IF currentZoom # NULL
        THEN LET currentSpan == currentZoom.end - currentZoom.start
                 \* start - currentSpan * 0.5 and end + currentSpan * 0.5
                 newStart == NewDateOfHalf(2 * currentZoom.start - currentSpan)
                 newEnd   == NewDateOfHalf(2 * currentZoom.end + currentSpan)
             IN  emitZoom(TimeRange(newStart, newEnd))
        ELSE UNCHANGED <<syncVars, probeVars, hoverHist, csvVars, appVars, mapVars,
                         chartVars, pipeVars, decVars, calcVars, stateVars>>

ZoomOut == onZoomOut /\ UNCHANGED zoomHist

HoverEvent(t) == [dataPoint |-> t]

\* hoverSubject.next(event).  The map's hover$ observer only moves its
\* marker, which is not part of this model.
HoverNext(event) ==
    /\ hoverRecv' = Deliver(hoverRecv, hoverSubs, event)
    /\ UNCHANGED <<syncVars, zoomSubs, hoverSubs, zoomRecv, zoomJoin, hoverJoin, zoomHist,
                   csvVars, appVars, mapVars, chartVars, decVars, calcVars, stateVars>>

emitHover(event) == HoverNext(event) /\ UNCHANGED pipeVars

LoggedEmitHover(event) ==
    /\ emitHover(event)
    /\ Len(hoverLog) < MaxHover
    /\ hoverLog' = Append(hoverLog, event)

\* what a new observer is handed at once: a BehaviorSubject (zoomSubject)
\* hands over its current value, a plain Subject (hoverSubject) nothing
OnSubscribeZoomPlain(current) == <<>>
OnSubscribeZoom(current) == <<current>>
OnSubscribeHover == <<>>

\* subscribeToSync of a view that is created late: hover$.subscribe(observer)
\* and zoom$.subscribe(observer), one after the other in one call
subscribeToSync(p) ==
    /\ p \notin hoverSubs /\ p \notin zoomSubs
    /\ \A q \in Probes : q < p => q \in zoomSubs      \* p is the next one to join
    /\ hoverSubs' = hoverSubs \cup {p}
    /\ hoverRecv' = [hoverRecv EXCEPT ![p] = OnSubscribeHover]
    /\ hoverJoin' = [hoverJoin EXCEPT ![p] = Len(hoverLog)]
    /\ zoomSubs' = zoomSubs \cup {p}
    /\ zoomRecv' = [zoomRecv EXCEPT ![p] = OnSubscribeZoom(zoomSubject)]
    /\ zoomJoin' = [zoomJoin EXCEPT ![p] = Len(zoomLog)]
    /\ UNCHANGED <<syncVars, zoomHist, hoverHist, csvVars, appVars, mapVars, chartVars,
                   pipeVars, decVars, calcVars, stateVars>>

\* ------------------------------------------------ CsvService / AppComponent
\* what parseCsv returns for a file, as far as the load path needs it
ParsedMetadata(f) == [headers |-> <<"time", f.col>>]
ParsedFields(f)   == <<[key |-> f.col]>>

\* reader.onload of parseFile: the three subjects are written one after the
\* other, each write running its observers before the next write; Angular
\* then hands AppComponent.data to the views (ngOnChanges).
parseFile(f) ==
    \* this.dataSubject.next(result.data) -> AppComponent data$ observer
    /\ dataSubject' = [value |-> f.recs, file |-> f]
    /\ appData' = f.recs
    /\ dataBounds' = IF Len(f.recs) > 0
                     THEN TimeRange(SeqMin(f.recs), SeqMax(f.recs))   \* setDataBounds
                     ELSE dataBounds
    /\ dataCbSaw' = [data |-> f.col, meta |-> metadataSubject.file.col,
                     fields |-> availableFieldsSubject.file.col]
    \* this.metadataSubject.next(result.metadata)
    /\ metadataSubject' = [value |-> ParsedMetadata(f), file |-> f]
    \* this.availableFieldsSubject.next(result.fields) -> AppComponent availableFields$ observer
    /\ availableFieldsSubject' = [value |-> ParsedFields(f), file |-> f]
    /\ availableFields' = ParsedFields(f)
    /\ fieldsCbSaw' = [data |-> f.col, meta |-> f.col, fields |-> f.col]
    \* MapComponent.ngOnChanges
    /\ mapData' = f.recs
    /\ timers' = IF isInitialized /\ Len(f.recs) > 0
                 THEN AddTimer(timers, Timer("change", ChangeDelayMs, NULL))
                 ELSE timers
    \* ChartComponent.ngOnChanges -> updateChart
    /\ chartData' = f.recs
    /\ xDomain' = IF svg /\ Len(f.recs) > 0 THEN Extent(f.recs) ELSE xDomain
    \* StateChartComponent.ngOnChanges: updateChart runs for data that is not empty
    /\ stateChart' = IF stateChart = <<>> THEN stateChart
                     ELSE <<[stateChart[1] EXCEPT !.data = f.recs]>>
    /\ UNCHANGED <<zoomSubject, probeVars, zoomHist, hoverHist, isInitialized,
                   isUpdatingZoom, lastZoomTimeRange, pathPolyline, svg,
                   currentTimeRange, pipeVars, decVars, calcVars>>

\* StateChartComponent.ngOnInit for a selected field: initChart, then
\* subscribeToSync, whose zoom$ subscription is handed the current window at
\* once
StateChartInit ==
    /\ stateChart = <<>>
    /\ availableFields # <<>>
    /\ stateChart' = <<StateChartObserver([data |-> appData, currentTimeRange |-> NULL,
                                           error |-> FALSE], zoomSubject)>>
    /\ UNCHANGED <<syncVars, probeVars, zoomHist, hoverHist, csvVars, appVars, mapVars,
                   chartVars, pipeVars, decVars, calcVars>>

\* ------------------------------------------------------------ MapComponent
\* the setTimeout callback of ngOnInit: initMap(), then subscribeToHover(),
\* whose zoom$ subscription is handed the current window at once
MapInit ==
    /\ ~isInitialized
    /\ isInitialized' = TRUE
    /\ timers' = MapZoomTimers(zoomSubject,
                               Append(timers, Timer("size", InvalidateMs, NULL)),
                               isUpdatingZoom, lastZoomTimeRange)
    /\ pathPolyline' = MapZoomPath(zoomSubject, mapData, pathPolyline)
    /\ UNCHANGED <<syncVars, probeVars, zoomHist, hoverHist, csvVars, appVars, mapData,
                   isUpdatingZoom, lastZoomTimeRange, chartVars, pipeVars, decVars, calcVars, stateVars>>

\* due timers run in creation order
DueIdx == {i \in DOMAIN timers : timers[i].left = 0}
FirstDue == CHOOSE i \in DueIdx : \A j \in DueIdx : i <= j
Due(kind) == DueIdx # {} /\ timers[FirstDue].kind = kind
WithoutFirstDue == [i \in 1..(Len(timers) - 1) |->
                        IF i < FirstDue THEN timers[i] ELSE timers[i + 1]]

\* the clock advances by one step when nothing is due
Tick ==
    /\ timers # <<>>
    /\ DueIdx = {}
    /\ timers' = [i \in DOMAIN timers |-> [timers[i] EXCEPT !.left = @ - 1]]
    /\ UNCHANGED <<syncVars, probeVars, zoomHist, hoverHist, csvVars, appVars, mapData,
                   isInitialized, isUpdatingZoom, lastZoomTimeRange, pathPolyline,
                   chartVars, pipeVars, decVars, calcVars, stateVars>>

\* the debounced zoom update: updatePathForTimeRange(timeRange)
ZoomTimeout ==
    /\ Due("zoom")
    /\ LET timeRange == timers[FirstDue].range
           filteredData == InRange(mapData, timeRange)
       IN  IF Len(mapData) = 0 \/ isUpdatingZoom
           THEN /\ timers' = WithoutFirstDue
                /\ UNCHANGED <<isUpdatingZoom, lastZoomTimeRange, pathPolyline>>
           ELSE /\ isUpdatingZoom' = TRUE
                /\ lastZoomTimeRange' = timeRange
                /\ pathPolyline' = IF Len(filteredData) = 0 THEN pathPolyline
                                   ELSE filteredData
                /\ timers' = Append(WithoutFirstDue, Timer("reset", ResetFlagMs, NULL))
    /\ UNCHANGED <<syncVars, probeVars, zoomHist, hoverHist, csvVars, appVars, mapData,
                   isInitialized, chartVars, pipeVars, decVars, calcVars, stateVars>>

\* the finally block's timer of updatePathForTimeRange
ResetUpdatingZoom ==
    /\ Due("reset")
    /\ isUpdatingZoom' = FALSE
    /\ timers' = WithoutFirstDue
    /\ UNCHANGED <<syncVars, probeVars, zoomHist, hoverHist, csvVars, appVars, mapData,
                   isInitialized, lastZoomTimeRange, pathPolyline, chartVars, pipeVars,
                   decVars, calcVars, stateVars>>

\* the timer of ngOnChanges: invalidateSize(), updatePath()
ChangeTimeout ==
    /\ Due("change")
    /\ pathPolyline' = updatePath(mapData, pathPolyline)
    /\ timers' = WithoutFirstDue
    /\ UNCHANGED <<syncVars, probeVars, zoomHist, hoverHist, csvVars, appVars, mapData,
                   isInitialized, isUpdatingZoom, lastZoomTimeRange, chartVars, pipeVars,
                   decVars, calcVars, stateVars>>

\* the timer of initMap: invalidateSize(), updatePath() when there is data
InvalidateSizeTimeout ==
    /\ Due("size")
    /\ pathPolyline' = updatePath(mapData, pathPolyline)
    /\ timers' = WithoutFirstDue
    /\ UNCHANGED <<syncVars, probeVars, zoomHist, hoverHist, csvVars, appVars, mapData,
                   isInitialized, isUpdatingZoom, lastZoomTimeRange, chartVars, pipeVars,
                   decVars, calcVars, stateVars>>

\* ---------------------------------------------------------- ChartComponent
DefaultDomain == [kind |-> "d3-default"]

\* onBrush: the selection is inverted through the x-scale, so the requested
\* range lies within the x-domain the chart shows
onBrush(timeRange) ==
    /\ svg
    /\ xDomain \in TimeRanges
    /\ xDomain.start <= timeRange.start /\ timeRange.end <= xDomain.end
    /\ EmitZoom(timeRange)

\* ngOnInit of a chart created for a selected field: initChart(), then
\* subscribeToSync(), whose observer is handed the current window at once
ChartInit ==
    /\ ~svg
    /\ availableFields # <<>>
    /\ svg' = TRUE
    /\ xDomain' = ChartDomain(zoomSubject, chartData)
    /\ currentTimeRange' = ChartCurrent(zoomSubject, chartData, currentTimeRange)
    /\ UNCHANGED <<syncVars, probeVars, zoomHist, hoverHist, csvVars, appVars, mapVars,
                   chartData, pipeVars, decVars, calcVars, stateVars>>

\* ------------------------------------------- chart hover pipeline
\* d3.bisector(d => d.datetime).left(data, date): binary search for the
\* first index (from 0) whose timestamp is not before date
bisectNone(data, date, lo, hi) == lo
RECURSIVE bisectLeft(_, _, _, _)
bisectLeft(data, date, lo, hi) ==
    IF lo < hi
    THEN LET mid == (lo + hi) \div 2
         IN  IF getTime(data[mid + 1]) < date
             THEN bisectLeft(data, date, mid + 1, hi)
             ELSE bisectLeft(data, date, lo, mid)
    ELSE lo

\* the closestPoint of onMouseMoveThrottled, for a non-empty data set
closestPointFarther(data, date) ==
    LET index == bisectLeft(data, date, 0, Len(data))
    IN  IF index = 0 THEN data[1]
        ELSE IF index = Len(data) THEN data[Len(data)]
        ELSE LET left  == data[index]
                 right == data[index + 1]
             IN  IF (date - getTime(left)) < (getTime(right) - date) THEN right ELSE left
closestPoint(data, date) ==
    LET index == bisectLeft(data, date, 0, Len(data))
    IN  IF index = 0 THEN data[1]
        ELSE IF index = Len(data) THEN data[Len(data)]
        ELSE LET left  == data[index]
                 right == data[index + 1]
             IN  IF (date - getTime(left)) > (getTime(right) - date) THEN right ELSE left

\* onMouseMoveThrottled for a cursor at instant date, on its own: the
\* lookup, then emitHover of the point found
nearestPoint(date) ==
    /\ chartData # <<>>
    /\ lookupDate' = <<date>>
    /\ closest' = <<closestPoint(chartData, date)>>
    /\ hoverRecv' = Deliver(hoverRecv, hoverSubs, HoverEvent(closestPoint(chartData, date)))
    /\ UNCHANGED <<syncVars, zoomSubs, hoverSubs, zoomRecv, zoomJoin, hoverJoin, zoomHist,
                   hoverHist, csvVars, appVars, mapVars, chartVars, pipeVars, decVars,
                   redecimated, finalData, csvText, parseResult, segField, segments,
                   nullGaps, lineGaps, stateVars>>

NowMs == hoverClock * HoverTickMs

\* throttleTime(50), leading edge only: a value passes when no throttle
\* timer is pending
ThrottleOpenAlways(timer) == TRUE
ThrottleOpen(timer) == timer = <<>>

\* the instants xScale.invert can return for a cursor over the first two records
Queries == {0, SampleMs \div 2, SampleMs}

\* mousemove on the hover overlay: mouseMoveSubject$.next(event), and
\* onMouseMoveThrottled(event) for the events throttleTime lets through
MouseMove(date) ==
    /\ Len(moveLog) < MaxMoves
    /\ moveLog' = Append(moveLog, [at |-> NowMs, date |-> date])
    /\ leaveAt' = <<>>
    /\ IF ThrottleOpen(throttleLeft)
       THEN /\ throttleLeft' = <<ThrottleMs \div HoverTickMs>>
            /\ recomputeLog' = Append(recomputeLog,
                    [at |-> NowMs, move |-> Len(moveLog) + 1,
                     dataPoint |-> closestPoint(chartData, date)])
            /\ HoverNext(HoverEvent(closestPoint(chartData, date)))
       ELSE /\ UNCHANGED <<throttleLeft, recomputeLog>>
            /\ UNCHANGED <<syncVars, probeVars, zoomHist, csvVars, appVars, mapVars,
                           chartVars, decVars, calcVars, stateVars>>
    /\ UNCHANGED <<hoverClock, hoverHist>>

\* the timer of throttleTime ends the throttle; with the default
\* configuration (leading edge only) the values that arrived meanwhile are
\* dropped, where a trailing edge would now hand on the last of them
ThrottleTimeoutTrailing ==
    /\ throttleLeft = <<0>>
    /\ throttleLeft' = <<>>
    /\ IF recomputeLog[Len(recomputeLog)].move < Len(moveLog)
       THEN HoverNext(HoverEvent(closestPoint(chartData, moveLog[Len(moveLog)].date)))
       ELSE UNCHANGED <<syncVars, probeVars, zoomHist, csvVars, appVars, mapVars,
                        chartVars, decVars, calcVars, stateVars>>
    /\ UNCHANGED <<hoverHist, hoverClock, moveLog, recomputeLog, leaveAt>>
ThrottleTimeout ==
    /\ throttleLeft = <<0>>
    /\ throttleLeft' = <<>>
    /\ UNCHANGED <<syncVars, probeVars, zoomHist, hoverHist, csvVars, appVars, mapVars,
                   chartVars, hoverClock, moveLog, recomputeLog, leaveAt, decVars, calcVars,
                   stateVars>>

\* the hover clock advances by one step when the throttle timer is not due
HoverTick ==
    /\ hoverClock < MaxClock
    /\ throttleLeft # <<0>>
    /\ hoverClock' = hoverClock + 1
    /\ throttleLeft' = IF throttleLeft = <<>> THEN <<>> ELSE <<throttleLeft[1] - 1>>
    /\ UNCHANGED <<syncVars, probeVars, zoomHist, hoverHist, csvVars, appVars, mapVars,
                   chartVars, moveLog, recomputeLog, leaveAt, decVars, calcVars, stateVars>>

\* mouseleave on the hover overlay of a chart the cursor is over:
\* onMouseLeave hides the hover marks and calls emitHover(null); it does not
\* touch mouseMoveSubject$ or the throttle
onMouseLeave ==
    /\ moveLog # <<>> /\ leaveAt = <<>>
    /\ leaveAt' = <<NowMs>>
    /\ HoverNext(NULL)
    /\ UNCHANGED <<hoverHist, hoverClock, throttleLeft, moveLog, recomputeLog>>

\* ------------------------------------------- ChartComponent.decimateData
Ceil(a, b) == (a + b - 1) \div b

\* Math.ceil(data.length / targetPoints)
StepFloor(length, target) == Max(1, length \div target)
Step(length, target) == Ceil(length, target)

\* for (let i = 0; i < data.length; i += step) decimated.push(data[i])
EveryNth(data, step) == [k \in 1..Ceil(Len(data), step) |-> data[(k - 1) * step + 1]]

\* "Always include the last point": pushed unless it is the record kept last
IncludeLastNever(decimated, last) == decimated
IncludeLast(decimated, last) ==
    IF decimated[Len(decimated)] # last THEN Append(decimated, last) ELSE decimated

decimateDataStrided(data) == IncludeLast(EveryNth(data, 2), data[Len(data)])
decimateData(data) ==
    IF Len(data) <= OverviewLimit THEN data
    ELSE IncludeLast(EveryNth(data, Step(Len(data), OverviewTarget)), data[Len(data)])

\* ngOnChanges / initChart of a chart with data: this.decimatedData = this.decimateData(this.data)
Decimate ==
    /\ Len(decData) > 0
    /\ decimatedData = <<>>
    /\ decimatedData' = decimateData(decData)
    /\ UNCHANGED <<syncVars, probeVars, zoomHist, hoverHist, csvVars, appVars, mapVars,
                   chartVars, pipeVars, decData, redecimated, finalData, lookupDate,
                   closest, csvText, parseResult, segField, segments, nullGaps, lineGaps, stateVars>>

\* ---------------------------------------------------------------- strings
\* A string is the sequence of its characters.

\* the words of the texts and the keys of the records, as character sequences;
\* absent marks a cell that a short row does not have
Word ==
    [datetime |-> <<"d", "a", "t", "e", "t", "i", "m", "e">>,
     latitude |-> <<"l", "a", "t", "i", "t", "u", "d", "e">>,
     longitude |-> <<"l", "o", "n", "g", "i", "t", "u", "d", "e">>,
     time |-> <<"t", "i", "m", "e">>,
     timeUpper |-> <<"T", "i", "m", "e">>,
     relativeTime |-> <<"r", "e", "l", "a", "t", "i", "v", "e", "_", "t", "i", "m", "e">>,
     lat |-> <<"l", "a", "t">>,
     latLng |-> <<"l", "a", "t", "_", "l", "n", "g">>,
     lon |-> <<"l", "o", "n">>,
     x |-> <<"x">>,
     temp |-> <<"t", "e", "m", "p">>,
     status |-> <<"s", "t", "a", "t", "u", "s">>,
     speed |-> <<"s", "p", "e", "e", "d">>,
     depth |-> <<"d", "e", "p", "t", "h">>,
     mode |-> <<"m", "o", "d", "e">>,
     empty |-> <<>>,
     null |-> <<"n", "u", "l", "l">>,
     nullUpper |-> <<"N", "U", "L", "L">>,
     undefined |-> <<"u", "n", "d", "e", "f", "i", "n", "e", "d">>,
     north |-> <<"n", "o", "r", "t", "h">>,
     infinity |-> <<"I", "n", "f", "i", "n", "i", "t", "y">>,
     prefixed |-> <<"1", "2", "a", "b", "c">>,
     blank |-> <<" ">>,
     padded |-> <<" ", "4">>,
     negative |-> <<"-", "3">>,
     absent |-> <<"absent">>]

UpperCase == <<"A", "B", "C", "D", "E", "F", "G", "H", "I", "J", "K", "L", "M",
               "N", "O", "P", "Q", "R", "S", "T", "U", "V", "W", "X", "Y", "Z">>
LowerCase == <<"a", "b", "c", "d", "e", "f", "g", "h", "i", "j", "k", "l", "m",
               "n", "o", "p", "q", "r", "s", "t", "u", "v", "w", "x", "y", "z">>
DigitChars == <<"0", "1", "2", "3", "4", "5", "6", "7", "8", "9">>

toLowerCase(s) ==
    [i \in DOMAIN s |->
        IF \E u \in DOMAIN UpperCase : UpperCase[u] = s[i]
        THEN LowerCase[CHOOSE u \in DOMAIN UpperCase : UpperCase[u] = s[i]]
        ELSE s[i]]

includes(s, sub) ==
    \E i \in 1..(Len(s) - Len(sub) + 1) : SubSeq(s, i, i + Len(sub) - 1) = sub

RECURSIVE trimStart(_)
trimStart(s) == IF s # <<>> /\ s[1] = " " THEN trimStart(Tail(s)) ELSE s
RECURSIVE trimEnd(_)
trimEnd(s) == IF s # <<>> /\ s[Len(s)] = " " THEN trimEnd(SubSeq(s, 1, Len(s) - 1)) ELSE s
trim(s) == trimEnd(trimStart(s))

\* ---------------------------------------------------------- JS values
UNDEFINED == [kind |-> "undefined"]
NaN       == [kind |-> "NaN"]
Infinity  == [kind |-> "Infinity"]
Num(n)    == [kind |-> "number", value |-> n]
Str(s)    == [kind |-> "string", chars |-> s]

isNaN(x)    == x = NaN
isFinite(x) == x.kind = "number"

IsDigit(c) == \E i \in DOMAIN DigitChars : DigitChars[i] = c
DigitValue(c) == (CHOOSE i \in DOMAIN DigitChars : DigitChars[i] = c) - 1
RECURSIVE digitsValue(_, _)
digitsValue(s, acc) ==
    IF s # <<>> /\ IsDigit(s[1]) THEN digitsValue(Tail(s), acc * 10 + DigitValue(s[1]))
    ELSE acc

\* parseFloat of a string: leading blanks skipped, an optional sign, then
\* the longest prefix that is a number; whatever follows is ignored.  The
\* numbers of the model are whole numbers (no cell has a decimal point or
\* an exponent).
parseFloat(str) ==
    LET s      == trimStart(str)
        signed == s # <<>> /\ s[1] \in {"-", "+"}
        body   == IF signed THEN Tail(s) ELSE s
    IN  IF Len(body) >= 8 /\ SubSeq(body, 1, 8) = Word.infinity THEN Infinity
        ELSE IF body # <<>> /\ IsDigit(body[1])
             THEN Num(IF s[1] = "-" THEN 0 - digitsValue(body, 0) ELSE digitsValue(body, 0))
        ELSE NaN
\* parseFloat of a value that may be undefined
parseFloatOf(v) == IF v.kind = "string" THEN parseFloat(v.chars) ELSE NaN

\* new Date(value).  The built-in date parser is not part of the program:
\* the time cells of the model are digit strings, read as the instant they
\* spell; anything else is an Invalid Date (time NaN).
Date(v) == [kind |-> "date", time |-> parseFloatOf(v)]

\* values[index] of an array that may be too short
At(values, index) == IF index <= Len(values) THEN Str(values[index]) ELSE UNDEFINED

\* ------------------------------------------------------------- CsvService
MissingTokens == {<<>>, <<"n", "u", "l", "l">>, <<"N", "U", "L", "L">>,
                  <<"u", "n", "d", "e", "f", "i", "n", "e", "d">>}

\* the verdict of isNumericField from what its loop has seen
isNumericAnyNumber(seen) == seen.hasNumericData
isNumeric(seen) == seen.hasNumericData /\ ~seen.hasStringData /\ seen.totalValues > 0

\* the loop of isNumericField over the data lines (a line is the sequence
\* of its cells, as line.split(',') gives them)
RECURSIVE scanColumn(_, _, _)
scanColumn(columnIndex, dataLines, seen) ==
    IF dataLines = <<>> THEN seen
    ELSE LET values == dataLines[1]
         IN  IF columnIndex <= Len(values) /\ values[columnIndex] # <<>>
             THEN LET value   == trim(values[columnIndex])
                      counted == [seen EXCEPT !.totalValues = @ + 1]
                  IN  IF value \notin MissingTokens
                      THEN IF ~isNaN(parseFloat(value)) /\ isFinite(parseFloat(value))
                           THEN scanColumn(columnIndex, Tail(dataLines),
                                           [counted EXCEPT !.hasNumericData = TRUE])
                           ELSE scanColumn(columnIndex, Tail(dataLines),
                                           [counted EXCEPT !.hasStringData = TRUE])
                      ELSE scanColumn(columnIndex, Tail(dataLines), counted)
             ELSE scanColumn(columnIndex, Tail(dataLines), seen)

isNumericField(columnIndex, dataLines) ==
    isNumeric(scanColumn(columnIndex, dataLines,
                         [hasStringData |-> FALSE, hasNumericData |-> FALSE, totalValues |-> 0]))

\* the body of headers.forEach in analyzeHeaders
analyzeHeader(md, header, index, dataLines) ==
    LET lowerHeader == toLowerCase(header)
    IN  IF /\ md.dateTimeField = <<>>
           /\ \/ includes(lowerHeader, <<"d", "a", "t", "e">>)
              \/ includes(lowerHeader, <<"t", "i", "m", "e">>)
        THEN [md EXCEPT !.dateTimeField = <<header>>]
        ELSE IF /\ md.latitudeField = <<>>
                /\ \/ includes(lowerHeader, <<"l", "a", "t">>)
                   \/ lowerHeader = <<"y">>
        THEN [md EXCEPT !.latitudeField = <<header>>]
        ELSE IF /\ md.longitudeField = <<>>
                /\ \/ includes(lowerHeader, <<"l", "o", "n">>)
                   \/ includes(lowerHeader, <<"l", "n", "g">>)
                   \/ lowerHeader = <<"x">>
        THEN [md EXCEPT !.longitudeField = <<header>>]
        ELSE IF isNumericField(index, dataLines)
        THEN [md EXCEPT !.numericFields = Append(@, header)]
        ELSE [md EXCEPT !.categoricalFields = Append(@, header)]

RECURSIVE analyzeFrom(_, _, _, _)
analyzeFrom(md, headers, index, dataLines) ==
    IF index > Len(headers) THEN md
    ELSE analyzeFrom(analyzeHeader(md, headers[index], index, dataLines),
                     headers, index + 1, dataLines)

\* a role that no header holds is the empty sequence, else <<header>>
analyzeHeaders(headers, dataLines) ==
    analyzeFrom([headers |-> headers, numericFields |-> <<>>, categoricalFields |-> <<>>,
                 dateTimeField |-> <<>>, latitudeField |-> <<>>, longitudeField |-> <<>>],
                headers, 1, dataLines)

\* a DataPoint: a function from its keys to their values, {} being <<>>
Put(dataPoint, key, v) ==
    [k \in (DOMAIN dataPoint) \cup {key} |-> IF k = key THEN v ELSE dataPoint[k]]
Get(dataPoint, key) == IF key \in DOMAIN dataPoint THEN dataPoint[key] ELSE UNDEFINED

InSeq(x, q) == \E i \in DOMAIN q : q[i] = x

parseCellAsText(dataPoint, header, value, metadata) == Put(dataPoint, header, value)
\* the body of headers.forEach in parseCsv, for one cell
parseCell(dataPoint, header, value, metadata) ==
    IF metadata.dateTimeField = <<header>>
    THEN Put(dataPoint, Word.datetime, Date(value))
    ELSE IF metadata.latitudeField = <<header>>
    THEN Put(dataPoint, Word.latitude, parseFloatOf(value))
    ELSE IF metadata.longitudeField = <<header>>
    THEN Put(dataPoint, Word.longitude, parseFloatOf(value))
    ELSE IF InSeq(header, metadata.numericFields)
    THEN IF value.kind = "string" /\ value.chars \in MissingTokens
         THEN Put(dataPoint, header, NULL)
         ELSE Put(dataPoint, header,
                  IF isNaN(parseFloatOf(value)) THEN NULL ELSE parseFloatOf(value))
    ELSE Put(dataPoint, header, value)

RECURSIVE parseCells(_, _, _, _, _)
parseCells(dataPoint, headers, index, values, metadata) ==
    IF index > Len(headers) THEN dataPoint
    ELSE parseCells(parseCell(dataPoint, headers[index], At(values, index), metadata),
                    headers, index + 1, values, metadata)

\* line.split(',').map(v => v.trim())
TrimAll(cells) == [i \in DOMAIN cells |-> trim(cells[i])]

parseLine(line, headers, metadata) ==
    parseCells(<<>>, headers, 1, TrimAll(line), metadata)

\* the plot fields of parseCsv; the color is its index in DEFAULT_COLORS,
\* the label (formatFieldLabel) is left out
PlotFieldsReversed(keys, dataType, autoSelected, colorOffset) ==
    [i \in DOMAIN keys |->
        [key |-> keys[Len(keys) + 1 - i], selected |-> (i - 1) < autoSelected,
         color |-> (colorOffset + i - 1) % NumColors, dataType |-> dataType]]
PlotFields(keys, dataType, autoSelected, colorOffset) ==
    [i \in DOMAIN keys |->
        [key |-> keys[i], selected |-> (i - 1) < autoSelected,
         color |-> (colorOffset + i - 1) % NumColors, dataType |-> dataType]]

\* parseCsv of a text given as its lines (csvText.trim().split('\n')), each
\* line as its cells (split(',')); there is always a first line
parseCsv(lines) ==
    LET headers  == TrimAll(lines[1])
        metadata == analyzeHeaders(headers, Tail(lines))
        data     == [i \in 1..(Len(lines) - 1) |-> parseLine(lines[i + 1], headers, metadata)]
        numericPlotFields ==
            PlotFields(SelectSeq(metadata.numericFields,
                                 LAMBDA field : /\ metadata.latitudeField # <<field>>
                                                /\ metadata.longitudeField # <<field>>),
                       "number", 2, 0)
        categoricalPlotFields ==
            PlotFields(metadata.categoricalFields, "string", 1, Len(numericPlotFields))
    IN  [data |-> data, metadata |-> metadata,
         fields |-> numericPlotFields \o categoricalPlotFields]

\* ------------------------------------ StateChartComponent.createStateSegments
RECURSIVE naturalToString(_)
naturalToString(n) ==
    IF n < 10 THEN <<DigitChars[n + 1]>>
    ELSE Append(naturalToString(n \div 10), DigitChars[(n % 10) + 1])

\* String(v) for the values a DataPoint holds
String(v) ==
    CASE v.kind = "string"    -> v.chars
      [] v.kind = "number"    -> IF v.value < 0 THEN <<"-">> \o naturalToString(0 - v.value)
                                 ELSE naturalToString(v.value)
      [] v.kind = "NaN"       -> <<"N", "a", "N">>
      [] v.kind = "Infinity"  -> <<"I", "n", "f", "i", "n", "i", "t", "y">>
      [] v.kind = "null"      -> <<"n", "u", "l", "l">>
      [] OTHER                -> <<"u", "n", "d", "e", "f", "i", "n", "e", "d">>

isNullState(v) == v = NULL \/ v = UNDEFINED

\* the condition under which the loop closes the current run at record i
StartsNewRunOnFlip(newState, currentState) ==
    isNullState(newState) # isNullState(currentState)
StartsNewRun(newState, currentState) ==
    \/ isNullState(newState) # isNullState(currentState)
    \/ /\ ~isNullState(newState)
       /\ String(newState) # String(currentState)

\* the end given to a run closed at record i
RunEndAtPrevious(data, i) == Get(data[i - 1], Word.datetime)
RunEnd(data, i) == Get(data[i], Word.datetime)

\* push the current run as a gap or as a segment (the color is left out)
closeRun(run, end) ==
    IF isNullState(run.currentState)
    THEN [run EXCEPT !.nullGaps = Append(@, [start |-> run.segmentStart, end |-> end])]
    ELSE [run EXCEPT !.segments = Append(@, [state |-> String(run.currentState),
                                             start |-> run.segmentStart, end |-> end])]

RECURSIVE segmentLoop(_, _, _, _)
segmentLoop(run, data, key, i) ==
    IF i > Len(data) THEN run
    ELSE LET newState == Get(data[i], key)
         IN  IF StartsNewRun(newState, run.currentState)
             THEN segmentLoop([closeRun(run, RunEnd(data, i)) EXCEPT
                                   !.currentState = newState,
                                   !.segmentStart = Get(data[i], Word.datetime)],
                              data, key, i + 1)
             ELSE segmentLoop(run, data, key, i + 1)

\* createStateSegments for non-empty data: the segments and the null gaps
createStateSegments(data, key) ==
    LET run == segmentLoop([segments |-> <<>>, nullGaps |-> <<>>,
                            currentState |-> Get(data[1], key),
                            segmentStart |-> Get(data[1], Word.datetime)],
                           data, key, 2)
    IN  closeRun(run, Get(data[Len(data)], Word.datetime))

\* ------------------------------------------- ChartComponent.findNullGaps
\* gapStart is <<>> for null, else <<start>>; the field is numeric, so its
\* values are numbers, null or undefined (isNaN of a number that is not NaN
\* is false)
RECURSIVE gapLoop(_, _, _, _)
gapLoop(found, data, key, i) ==
    IF i > Len(data) THEN found
    ELSE LET point  == data[i]
             value  == Get(point, key)
             isNull == value = NULL \/ value = UNDEFINED \/ isNaN(value)
         IN  IF isNull /\ found.gapStart = <<>>
             THEN gapLoop([found EXCEPT !.gapStart = <<Get(point, Word.datetime)>>],
                          data, key, i + 1)
             ELSE IF ~isNull /\ found.gapStart # <<>>
             THEN gapLoop([gaps |-> Append(found.gaps, [start |-> found.gapStart[1],
                                                        end |-> Get(point, Word.datetime)]),
                           gapStart |-> <<>>],
                          data, key, i + 1)
             ELSE gapLoop(found, data, key, i + 1)

findNullGapsOpen(data, key) == gapLoop([gaps |-> <<>>, gapStart |-> <<>>], data, key, 1).gaps
findNullGaps(data, key) ==
    LET found == gapLoop([gaps |-> <<>>, gapStart |-> <<>>], data, key, 1)
    IN  IF found.gapStart # <<>> /\ Len(data) > 0
        THEN Append(found.gaps, [start |-> found.gapStart[1],
                                 end |-> Get(data[Len(data)], Word.datetime)])
        ELSE found.gaps

\* ------------------------------------------- ChartComponent.applyZoom
\* the array applyZoom filters: this.data, the full-resolution records
ZoomSourceDecimated(data, decimated) == decimated
ZoomSource(data, decimated) == data

\* "only decimate if we have more than 1000 visible points": the loop and
\* the last-point rule are those of decimateData, written out again
ZoomPoints(visibleData) ==
    IF Len(visibleData) > ZoomLimit
    THEN IncludeLast(EveryNth(visibleData, Step(Len(visibleData), ZoomTarget)),
                     visibleData[Len(visibleData)])
    ELSE visibleData

\* the zoom$ observer of a line chart handed a window: currentTimeRange is
\* set and applyZoom(timeRange) moves the x-scale and redraws the line
applyZoom(timeRange) ==
    /\ svg
    /\ decimatedData # <<>>
    /\ currentTimeRange' = timeRange
    /\ xDomain' = timeRange
    /\ finalData' = ZoomPoints(InRange(ZoomSource(chartData, decimatedData), timeRange))
    /\ UNCHANGED <<syncVars, probeVars, zoomHist, hoverHist, csvVars, appVars, mapVars,
                   svg, chartData, pipeVars, decVars, redecimated, lookupDate, closest,
                   csvText, parseResult, segField, segments, nullGaps, lineGaps, stateVars>>

\* the zoom$ observer handed null: resetZoom() draws this.decimatedData
\* over the full extent of the (sorted, non-empty) data
resetZoom ==
    /\ svg
    /\ decimatedData # <<>>
    /\ currentTimeRange # NULL
    /\ currentTimeRange' = NULL
    /\ xDomain' = TimeRange(chartData[1], chartData[Len(chartData)])
    /\ finalData' = decimatedData
    /\ UNCHANGED <<syncVars, probeVars, zoomHist, hoverHist, csvVars, appVars, mapVars,
                   svg, chartData, pipeVars, decVars, redecimated, lookupDate, closest,
                   csvText, parseResult, segField, segments, nullGaps, lineGaps, stateVars>>

\* decimateData applied to its own result
Redecimate ==
    /\ decimatedData # <<>>
    /\ redecimated = <<>>
    /\ redecimated' = decimateData(decimatedData)
    /\ UNCHANGED <<syncVars, probeVars, zoomHist, hoverHist, csvVars, appVars, mapVars,
                   chartVars, pipeVars, decVars, finalData, lookupDate, closest, csvText,
                   parseResult, segField, segments, nullGaps, lineGaps, stateVars>>

\* AppComponent, availableFields$ subscription: the fields selected when
\* new fields are published
selectedFieldsAll(fields) == fields
selectedFields(fields) == SelectSeq(fields, LAMBDA f : f.selected)

\* ------------------------------------------------- CsvService.parseCsv
\* reader.onload of parseFile for a text: parseCsv throws on no text, so its
\* result is published (data$, metadata$, availableFields$) and the promise
\* resolved; parseResult is what was published
parseText ==
    /\ csvText # <<>>
    /\ parseResult = <<>>
    /\ parseResult' = <<parseCsv(csvText)>>
    /\ UNCHANGED <<syncVars, probeVars, zoomHist, hoverHist, csvVars, appVars, mapVars,
                   chartVars, pipeVars, decVars, redecimated, finalData, lookupDate,
                   closest, csvText, segField, segments, nullGaps, lineGaps, stateVars>>

\* StateChartComponent.updateChart for the parsed data and one of its plot
\* fields: nothing is drawn for empty data, else the segments are rebuilt
updateStateChart(key) ==
    /\ parseResult # <<>>
    /\ segField = <<>>
    /\ \E i \in DOMAIN parseResult[1].fields : parseResult[1].fields[i].key = key
    /\ parseResult[1].data # <<>>
    /\ segField' = <<key>>
    /\ segments' = createStateSegments(parseResult[1].data, key).segments
    /\ nullGaps' = createStateSegments(parseResult[1].data, key).nullGaps
    /\ UNCHANGED <<syncVars, probeVars, zoomHist, hoverHist, csvVars, appVars, mapVars,
                   chartVars, pipeVars, decVars, redecimated, finalData, lookupDate,
                   closest, csvText, parseResult, lineGaps, stateVars>>

\* ChartComponent.drawNullGaps for the parsed data and one of its numeric
\* plot fields
drawNullGaps(key) ==
    /\ parseResult # <<>>
    /\ lineGaps = <<>> /\ stateChart = <<>>
    /\ \E i \in DOMAIN parseResult[1].fields :
          /\ parseResult[1].fields[i].key = key
          /\ parseResult[1].fields[i].dataType = "number"
    /\ lineGaps' = <<[key |-> key, gaps |-> findNullGaps(parseResult[1].data, key)]>>
    /\ UNCHANGED <<syncVars, probeVars, zoomHist, hoverHist, csvVars, appVars, mapVars,
                   chartVars, pipeVars, decVars, redecimated, finalData, lookupDate,
                   closest, csvText, parseResult, segField, segments, nullGaps, stateVars>>

\* ------------------------------------------------------------------- Init
InitSync ==
    /\ dataBounds = NULL
    /\ zoomSubject = NULL
    /\ zoomSubs = {} /\ hoverSubs = {}
    /\ zoomRecv = [p \in Probes |-> <<>>] /\ hoverRecv = [p \in Probes |-> <<>>]
    /\ zoomLog = <<>> /\ hoverLog = <<>>
    /\ zoomJoin = [p \in Probes |-> 0] /\ hoverJoin = [p \in Probes |-> 0]

InitCsv ==
    /\ dataSubject = [value |-> <<>>, file |-> NoFile]
    /\ metadataSubject = [value |-> NULL, file |-> NoFile]
    /\ availableFieldsSubject = [value |-> <<>>, file |-> NoFile]
    /\ appData = <<>>
    /\ availableFields = <<>>
    /\ dataCbSaw = [data |-> NoFile.col, meta |-> NoFile.col, fields |-> NoFile.col]
    /\ fieldsCbSaw = [data |-> NoFile.col, meta |-> NoFile.col, fields |-> NoFile.col]

InitViews ==
    /\ mapData = <<>> /\ isInitialized = FALSE /\ isUpdatingZoom = FALSE
    /\ lastZoomTimeRange = NULL /\ pathPolyline = <<>> /\ timers = <<>>
    /\ svg = FALSE /\ chartData = <<>> /\ currentTimeRange = NULL
    /\ xDomain = DefaultDomain

InitPipe ==
    /\ hoverClock = 0 /\ throttleLeft = <<>> /\ moveLog = <<>> /\ recomputeLog = <<>>
    /\ leaveAt = <<>>

InitDec ==
    /\ decData = <<>> /\ decimatedData = <<>>

\* nothing computed yet: an empty sequence stands for "no value"
InitCalc ==
    /\ redecimated = <<>> /\ finalData = <<>>
    /\ lookupDate = <<>> /\ closest = <<>>
    /\ csvText = <<>> /\ parseResult = <<>>
    /\ segField = <<>> /\ segments = <<>> /\ nullGaps = <<>> /\ lineGaps = <<>> /\ stateChart = <<>>

Init == InitSync /\ InitCsv /\ InitViews /\ InitPipe /\ InitDec /\ InitCalc

\* ----------------------------------------------------------- specifications
HasTime(f, t) == \E i \in DOMAIN f.recs : f.recs[i] = t
\* files of one column whose records are the last timestamps of Times
ViewFiles == {f \in Files : /\ f.col = "temp"
                            /\ \A t \in Times : HasTime(f, t) /\ t < MaxT => HasTime(f, t + 1)}

\* the state parseFile(f) leaves behind when it is the first load
Loaded(f) ==
    /\ dataBounds = Extent(f.recs)
    /\ zoomSubject = NULL
    /\ zoomSubs = {} /\ hoverSubs = {}
    /\ zoomRecv = [p \in Probes |-> <<>>] /\ hoverRecv = [p \in Probes |-> <<>>]
    /\ zoomLog = <<>> /\ hoverLog = <<>>
    /\ zoomJoin = [p \in Probes |-> 0] /\ hoverJoin = [p \in Probes |-> 0]
    /\ dataSubject = [value |-> f.recs, file |-> f]
    /\ metadataSubject = [value |-> ParsedMetadata(f), file |-> f]
    /\ availableFieldsSubject = [value |-> ParsedFields(f), file |-> f]
    /\ appData = f.recs
    /\ availableFields = ParsedFields(f)
    /\ dataCbSaw = [data |-> f.col, meta |-> NoFile.col, fields |-> NoFile.col]
    /\ fieldsCbSaw = [data |-> f.col, meta |-> f.col, fields |-> f.col]

\* the views of a loaded file once the map and a chart are created and the
\* timers of their creation have run: both show the full extent
ViewsReady(f) ==
    /\ mapData = f.recs /\ isInitialized = TRUE /\ isUpdatingZoom = FALSE
    /\ lastZoomTimeRange = NULL /\ pathPolyline = f.recs /\ timers = <<>>
    /\ svg = TRUE /\ chartData = f.recs /\ currentTimeRange = NULL
    /\ xDomain = Extent(f.recs)

\* Spec: a file with records is loaded and shown; the views follow the zoom calls
InitShown ==
    /\ \E f \in ViewFiles : Len(f.recs) > 0 /\ Loaded(f) /\ ViewsReady(f)
    /\ InitPipe /\ InitDec /\ InitCalc

Next ==
    \/ \E r \in RequestedRanges : onBrush(r)
    \/ ClearZoom
    \/ Tick
    \/ ZoomTimeout
    \/ ResetUpdatingZoom

Spec == InitShown /\ [][Next]_vars

\* SpecApp: the whole application from its start
NextApp ==
    \/ Next
    \/ \E r \in RequestedRanges : EmitZoom(r)
    \/ \E f \in ViewFiles : parseFile(f)
    \/ MapInit
    \/ ChartInit
    \/ ChangeTimeout
    \/ InvalidateSizeTimeout

SpecApp == Init /\ [][NextApp]_vars

\* the initial states of Spec are states of the running application
ShownIsReachable == ~ \E f \in ViewFiles : Len(f.recs) > 0 /\ Loaded(f) /\ ViewsReady(f)

\* SpecLoad: the load path alone, files with different columns, no view created
NextLoad ==
    \/ \E f \in Files : parseFile(f)
    \/ \E r \in RequestedRanges : EmitZoom(r)
    \/ ClearZoom

SpecLoad == Init /\ [][NextLoad]_vars

\* SpecStateChart: the load path with a state chart that is created for a
\* field of the loaded file, files without records included
NextStateChart ==
    \/ \E f \in Files : parseFile(f)
    \/ \E r \in RequestedRanges : EmitZoom(r)
    \/ ClearZoom
    \/ StateChartInit

SpecStateChart == Init /\ [][NextStateChart]_vars

\* SpecSync: the two channels with observers that join late; the one file
\* loaded leaves out timestamp 0, so that a requested range can start before
\* dataBounds
SyncFiles  == {f \in ViewFiles : Len(f.recs) = MaxT}
SyncRanges == {r \in RequestedRanges : r.start = 0 /\ r.end >= MaxT - 1}

NextSync ==
    \/ \E f \in SyncFiles : parseFile(f)
    \/ \E r \in SyncRanges : LoggedEmitZoom(r)
    \/ LoggedClearZoom
    \/ LoggedEmitHover(HoverEvent(MaxT))
    \/ LoggedEmitHover(NULL)
    \/ \E p \in Probes : subscribeToSync(p)

SpecSync == Init /\ [][NextSync]_vars

\* SpecHover: the cursor moves over a chart that shows a loaded file
FullFile == CHOOSE f \in ViewFiles : Len(f.recs) = MaxT + 1

InitHover == Loaded(FullFile) /\ ViewsReady(FullFile) /\ InitPipe /\ InitDec /\ InitCalc

NextHover ==
    \/ \E date \in Queries : MouseMove(date)
    \/ ThrottleTimeout
    \/ HoverTick

SpecHover == InitHover /\ [][NextHover]_vars

\* SpecLeave: the other views subscribe to hover$ (ngOnInit), then the cursor
\* moves over the chart and leaves it
NextLeave ==
    \/ NextHover
    \/ onMouseLeave
    \/ \E p \in Probes : moveLog = <<>> /\ hoverClock = 0 /\ subscribeToSync(p)

SpecLeave == InitHover /\ [][NextLeave]_vars

\* SpecZoomOut: SyncService and the field selector on their own.  The bounds
\* are those of some loaded file; the field selector has subscribed to zoom$
\* in its constructor (observer 1) and was handed null; a window is brushed
\* on the full view, then the zoom-out and reset buttons are used.
Instants == (0 - MaxInstant)..MaxInstant
InstantRanges == {r \in {TimeRange(a, b) : a \in Instants, b \in Instants} : r.start <= r.end}

InitZoomOut ==
    /\ dataBounds \in InstantRanges
    /\ zoomSubject = NULL
    /\ zoomSubs = {1} /\ hoverSubs = {}
    /\ zoomRecv = [p \in Probes |-> IF p = 1 THEN OnSubscribeZoom(NULL) ELSE <<>>]
    /\ hoverRecv = [p \in Probes |-> <<>>]
    /\ zoomLog = <<>> /\ hoverLog = <<>>
    /\ zoomJoin = [p \in Probes |-> 0] /\ hoverJoin = [p \in Probes |-> 0]
    /\ InitCsv /\ InitViews /\ InitPipe /\ InitDec /\ InitCalc

NextZoomOut ==
    \/ \E r \in InstantRanges : Len(zoomRecv[1]) = 1 /\ EmitZoom(r)
    \/ Len(zoomRecv[1]) <= MaxLog /\ ZoomOut
    \/ Len(zoomRecv[1]) <= MaxLog /\ ClearZoom

SpecZoomOut == InitZoomOut /\ [][NextZoomOut]_vars

\* SpecDecimate: decimateData applied to data sets of many lengths; a record
\* is its position in the file, records of one file being distinct objects
DecLengths ==
    (1..SmallLen)
    \cup {k * OverviewTarget + d : k \in 1..MaxMult, d \in (0 - MaxDelta)..MaxDelta}
    \cup {ScenarioLen}

InitDecimate ==
    /\ InitSync /\ InitCsv /\ InitViews /\ InitPipe
    /\ \E n \in DecLengths : decData = [i \in 1..n |-> i]
    /\ decimatedData = <<>>
    /\ InitCalc

NextDecimate ==
    \/ Decimate
    \/ Redecimate

SpecDecimate == InitDecimate /\ [][NextDecimate]_vars

\* SpecNearest: the nearest-point lookup on every time-ordered data set of
\* up to MaxT + 1 records (equal timestamps included), for query instants
\* from before the first record to after the last one, in half steps
LookupData ==
    {q \in UNION {[1..n -> Times] : n \in 1..(MaxT + 1)} :
        \A i \in 1..(Len(q) - 1) : q[i] <= q[i + 1]}
LookupDates == {k * (SampleMs \div 2) : k \in (0 - 1)..(2 * MaxT + 1)}

InitNearest ==
    /\ \E q \in LookupData :
          LET f == [recs |-> q, col |-> "temp"] IN Loaded(f) /\ ViewsReady(f)
    /\ InitPipe /\ InitDec /\ InitCalc

NextNearest == \E date \in LookupDates : nearestPoint(date)

SpecNearest == InitNearest /\ [][NextNearest]_vars

\* SpecCsv: parseCsv applied to small texts, and the state chart drawn for a
\* plot field of the result.  A text is the sequence of its lines, a line
\* the sequence of its cells.  Row i of every text has the time cell "i".
\* time and one column, the cells of the column given per row; a row whose
\* cell is absent is a short row
ColumnText(cells) ==
    <<<<Word.time, Word.temp>>>> \o
    [i \in DOMAIN cells |-> IF cells[i] = Word.absent THEN <<naturalToString(i)>>
                            ELSE <<naturalToString(i), cells[i]>>]
ColumnFiles ==
    LET CommonCells == {Word.empty, Word.null, <<"1">>, <<"2">>, <<"4">>, <<"A">>, <<"B">>,
                        Word.north, Word.absent}
    IN  {ColumnText(cells) : cells \in UNION {[1..n -> CommonCells] : n \in 0..MaxRows}}
\* the same with unusual cells; a row whose cell is absent is a blank line
ExoticFiles ==
    LET ExoticCells == {Word.nullUpper, Word.undefined, Word.infinity, Word.prefixed,
                        Word.blank, Word.padded, Word.negative, <<"1">>, Word.absent}
        ExoticText(cells) ==
            <<<<Word.time, Word.temp>>>> \o
            [i \in DOMAIN cells |-> IF cells[i] = Word.absent THEN <<Word.empty>>
                                    ELSE <<naturalToString(i), cells[i]>>]
    IN  {ExoticText(cells) : cells \in UNION {[1..n -> ExoticCells] : n \in 1..MaxExoticRows}}

\* header lines of up to MaxHeaders names (a name may come twice), with one
\* data row: "A" under status and mode, "1" elsewhere
HeaderNames == {Word.timeUpper, Word.relativeTime, Word.lat, Word.latLng, Word.lon,
                Word.x, Word.temp, Word.speed, Word.depth, Word.status, Word.mode}
HeaderFiles ==
    {<<h, [i \in DOMAIN h |-> IF h[i] \in {Word.status, Word.mode} THEN <<"A">> ELSE <<"1">>]>> :
        h \in UNION {[1..n -> HeaderNames] : n \in 1..MaxHeaders}}

\* the empty input: ''.trim().split('\n') is one line, and that line one empty cell
EmptyText == <<<<Word.empty>>>>

InitCsvText ==
    /\ InitSync /\ InitCsv /\ InitViews /\ InitPipe /\ InitDec
    /\ redecimated = <<>> /\ finalData = <<>>
    /\ lookupDate = <<>> /\ closest = <<>>
    /\ csvText \in ColumnFiles \cup ExoticFiles \cup HeaderFiles \cup {EmptyText}
    /\ parseResult = <<>>
    /\ segField = <<>> /\ segments = <<>> /\ nullGaps = <<>> /\ lineGaps = <<>> /\ stateChart = <<>>

NextCsv ==
    \/ parseText
    \/ \E key \in HeaderNames : updateStateChart(key)
    \/ \E key \in HeaderNames : drawNullGaps(key)

SpecCsv == InitCsvText /\ [][NextCsv]_vars

\* SpecWindow: a line chart over the 5000-record data set (timestamps
\* 1..5000, in file order) is zoomed to windows of many sizes
WindowFile == [recs |-> [i \in 1..ScenarioLen |-> i], col |-> "temp"]
WindowEdges == {k * (ZoomTarget \div 2) + d : k \in 0..MaxEdge, d \in {0, 1}}
\* windows with start <= end, and the empty ones whose start is one past their end
Windows == {w \in {TimeRange(s, e) : s \in WindowEdges, e \in WindowEdges} : w.start <= w.end + 1}

InitWindow ==
    /\ dataBounds = TimeRange(1, ScenarioLen)
    /\ zoomSubject = NULL
    /\ zoomSubs = {} /\ hoverSubs = {}
    /\ zoomRecv = [p \in Probes |-> <<>>] /\ hoverRecv = [p \in Probes |-> <<>>]
    /\ zoomLog = <<>> /\ hoverLog = <<>>
    /\ zoomJoin = [p \in Probes |-> 0] /\ hoverJoin = [p \in Probes |-> 0]
    /\ dataSubject = [value |-> WindowFile.recs, file |-> WindowFile]
    /\ metadataSubject = [value |-> ParsedMetadata(WindowFile), file |-> WindowFile]
    /\ availableFieldsSubject = [value |-> ParsedFields(WindowFile), file |-> WindowFile]
    /\ appData = WindowFile.recs
    /\ availableFields = ParsedFields(WindowFile)
    /\ dataCbSaw = [data |-> WindowFile.col, meta |-> NoFile.col, fields |-> NoFile.col]
    /\ fieldsCbSaw = [data |-> WindowFile.col, meta |-> WindowFile.col, fields |-> WindowFile.col]
    /\ mapData = WindowFile.recs /\ isInitialized = FALSE /\ isUpdatingZoom = FALSE
    /\ lastZoomTimeRange = NULL /\ pathPolyline = <<>> /\ timers = <<>>
    /\ svg = TRUE /\ chartData = WindowFile.recs /\ currentTimeRange = NULL
    /\ xDomain = TimeRange(1, ScenarioLen)
    /\ InitPipe
    /\ decData = WindowFile.recs
    /\ decimatedData = decimateData(WindowFile.recs)
    /\ redecimated = <<>>
    /\ finalData = decimateData(WindowFile.recs)
    /\ lookupDate = <<>> /\ closest = <<>>
    /\ csvText = <<>> /\ parseResult = <<>>
    /\ segField = <<>> /\ segments = <<>> /\ nullGaps = <<>> /\ lineGaps = <<>> /\ stateChart = <<>>

NextWindow ==
    \/ \E timeRange \in Windows : applyZoom(timeRange)
    \/ resetZoom

SpecWindow == InitWindow /\ [][NextWindow]_vars

\* ------------------------------------------------------------------ claims
InsideBounds(w, b) ==
    /\ b.start <= w.start /\ w.start <= b.end
    /\ b.start <= w.end /\ w.end <= b.end

\* C1: after any emitZoom(range) made once dataBounds is set, both endpoints
\* of the stored window lie inside dataBounds, whatever range was requested
C1_StoredWindowInsideBounds ==
    [][\A r \in RequestedRanges :
          (dataBounds # NULL /\ EmitZoom(r)) => InsideBounds(zoomSubject', dataBounds)]_vars

\* the window the map is expected to show, as a path
ShownPath(window, data) == IF window = NULL THEN data ELSE InRange(data, window)

\* C2: once every pending timer has fired, every view shows the
\* coordinator's current window: the chart has it as x-domain and the map
\* path is built from exactly the records inside it (all records when full)
C2_ViewsShowWindowWhenQuiet ==
    timers = <<>> =>
        /\ isInitialized => pathPolyline = ShownPath(zoomSubject, mapData)
        /\ svg => xDomain = ChartDomain(zoomSubject, chartData)

\* C3: after every load is published the coordinator's window is full
C3_LoadResetsWindow ==
    [][\A f \in Files : parseFile(f) => zoomSubject' = NULL]_vars

\* C4: dataBounds is [min, max] of the timestamps of the published records,
\* and describes no data set when the published sequence is empty
BoundsOfRecords(recs) == IF recs = <<>> THEN NULL ELSE TimeRange(SeqMin(recs), SeqMax(recs))
C4_BoundsDescribePublishedData ==
    dataBounds = BoundsOfRecords(dataSubject.value)

\* C5: no observer of the load runs while the published records belong to
\* the new file and the published fields or metadata to the previous one
SawOneLoad(saw) ==
    /\ saw.meta # NoFile.col => saw.meta = saw.data
    /\ saw.fields # NoFile.col => saw.fields = saw.data
C5_LoadIsAtomicForObservers ==
    SawOneLoad(dataCbSaw) /\ SawOneLoad(fieldsCbSaw)

\* the value of zoomSubject when observer p joined
ZoomAtJoin(p) == IF zoomJoin[p] = 0 THEN NULL ELSE zoomLog[zoomJoin[p]]
SentSince(log, n) == SubSeq(log, n + 1, Len(log))

\* C6: an observer joining zoom$ is handed the current window at once (the
\* last value sent, or full); an observer joining hover$ is handed nothing
\* until the next emitHover
C6_ZoomReplayedHoverNot ==
    \A p \in Probes :
        /\ p \in zoomSubs => Len(zoomRecv[p]) >= 1 /\ zoomRecv[p][1] = ZoomAtJoin(p)
        /\ p \in hoverSubs /\ Len(hoverLog) = hoverJoin[p] => hoverRecv[p] = <<>>

C6_Witness ==
    \E p \in Probes :
        /\ p \in zoomSubs /\ zoomJoin[p] >= 1 /\ zoomRecv[p][1] # NULL
        /\ dataBounds # NULL /\ zoomRecv[p][1].start = dataBounds.start
        /\ p \in hoverSubs /\ hoverJoin[p] >= 1 /\ hoverLog[hoverJoin[p]] # NULL
        /\ Len(hoverLog) = hoverJoin[p]

\* C7: every emitZoom, clearZoom and emitHover hands its value to every
\* registered observer before it returns, and every observer is handed the
\* values of successive calls in the order of the calls
C7_DeliveredToAllInOrder ==
    \A p \in Probes :
        /\ p \in zoomSubs => Tail(zoomRecv[p]) = SentSince(zoomLog, zoomJoin[p])
        /\ p \in hoverSubs => hoverRecv[p] = SentSince(hoverLog, hoverJoin[p])

C7_Witness ==
    /\ zoomSubs = Probes /\ hoverSubs = Probes
    /\ \A p \in Probes :
        /\ Len(zoomLog) >= zoomJoin[p] + 2
        /\ Len(hoverLog) >= hoverJoin[p] + 2
    /\ zoomLog[Len(zoomLog)] # zoomLog[Len(zoomLog) - 1]
    /\ hoverLog[Len(hoverLog)] # hoverLog[Len(hoverLog) - 1]

Used(k) == \E i \in DOMAIN recomputeLog : recomputeLog[i].move = k

C9_LastRecordKept ==
    decimatedData # <<>> => decimatedData[Len(decimatedData)] = decData[Len(decData)]

C9_Witness ==
    /\ decimatedData # <<>>
    /\ Len(decData) > OverviewLimit
    /\ (Len(decData) - 1) % Step(Len(decData), OverviewTarget) # 0

\* C10: for more records than the target, the result is the records at
\* indices 0, step, 2*step, ... (step = ceil(length / target)) in their
\* order, followed by the last record when its index is not one of them;
\* it never has more than target + 1 records
C10_StrideThenLast ==
    (decimatedData # <<>> /\ Len(decData) > OverviewTarget) =>
        LET n      == Len(decData)
            step   == Ceil(n, OverviewTarget)
            stride == {j \in 0..(n - 1) : j % step = 0}
            m      == Cardinality(stride)
        IN  /\ \A j \in stride : decimatedData[(j \div step) + 1] = decData[j + 1]
            /\ IF (n - 1) \in stride
               THEN Len(decimatedData) = m
               ELSE Len(decimatedData) = m + 1 /\ decimatedData[m + 1] = decData[n]
            /\ Len(decimatedData) <= OverviewTarget + 1

C10_Witness ==
    /\ Len(decData) = ScenarioLen
    /\ decimatedData # <<>>
    /\ Len(decimatedData) < Len(decData)

\* C11: decimateData returns a sequence of at most 2000 records unchanged
\* (same records, same order), so applying it twice gives what applying it
\* once gives
C11_ShortSequenceUnchanged ==
    (redecimated # <<>> /\ Len(decData) <= OverviewTarget) =>
        /\ Len(decimatedData) = Len(decData)
        /\ \A i \in DOMAIN decData : decimatedData[i] = decData[i]
        /\ redecimated = decimatedData

C11_Witness ==
    /\ redecimated # <<>>
    /\ Len(decData) = OverviewTarget
    /\ redecimated = decData

\* the positions in the full-resolution data whose timestamp lies in w
\* (the data are in ascending order, so they are consecutive)
InWindow(data, w) == {i \in DOMAIN data : w.start <= data[i] /\ data[i] <= w.end}
Before(data, w) == {i \in DOMAIN data : data[i] < w.start}

\* C12: the points drawn for a zoom window are the full-resolution records
\* with start <= timestamp <= end, every one of them when there are at most
\* 1000, else every step-th of them (step = ceil(count / 1000)) and the last
C12_ZoomDrawsFullResolution ==
    currentTimeRange # NULL =>
        LET count == Cardinality(InWindow(chartData, currentTimeRange))
            first == Cardinality(Before(chartData, currentTimeRange)) + 1
            step  == IF count > ZoomTarget THEN Ceil(count, ZoomTarget) ELSE 1
            m     == Ceil(count, step)
        IN  /\ \A k \in 1..m : finalData[k] = chartData[first + (k - 1) * step]
            /\ IF count = 0 \/ (count - 1) % step = 0
               THEN Len(finalData) = m
               ELSE /\ Len(finalData) = m + 1
                    /\ finalData[m + 1] = chartData[first + count - 1]
            /\ count <= ZoomTarget => Len(finalData) = count

C12_Witness ==
    /\ currentTimeRange # NULL
    /\ Len(finalData) = ZoomTarget
    /\ \E k \in DOMAIN finalData :
          \A j \in DOMAIN decimatedData : decimatedData[j] # finalData[k]

\* C15: a query instant equal to the timestamp of some record returns a
\* record with exactly that timestamp
C15_ExactTimestampFound ==
    (closest # <<>> /\ \E i \in DOMAIN chartData : getTime(chartData[i]) = lookupDate[1])
        => getTime(closest[1]) = lookupDate[1]

C15_Witness ==
    /\ closest # <<>>
    /\ Len(chartData) >= 3
    /\ chartData[1] < chartData[2] /\ chartData[2] < chartData[3]
    /\ getTime(chartData[2]) = lookupDate[1]
    /\ closest[1] = chartData[2]

\* C16: a query instant strictly between two consecutive records and
\* equally distant from both returns the later one (the right neighbour)
C16_TieGoesToSuccessor ==
    closest # <<>> =>
        \A i \in 1..(Len(chartData) - 1) :
            ( /\ getTime(chartData[i]) < lookupDate[1]
              /\ lookupDate[1] < getTime(chartData[i + 1])
              /\ lookupDate[1] - getTime(chartData[i]) = getTime(chartData[i + 1]) - lookupDate[1] )
                => closest[1] = chartData[i + 1]

\* C17: the record returned is a record of the data set at the least
\* distance from the query instant; a query before every record returns
\* the first record, a query after every record the last one
C17_NearestRecordReturned ==
    closest # <<>> =>
        /\ \E i \in DOMAIN chartData : chartData[i] = closest[1]
        /\ \A i \in DOMAIN chartData :
              Abs(getTime(closest[1]) - lookupDate[1]) <= Abs(getTime(chartData[i]) - lookupDate[1])
        /\ (\A i \in DOMAIN chartData : lookupDate[1] < getTime(chartData[i]))
              => closest[1] = chartData[1]
        /\ (\A i \in DOMAIN chartData : lookupDate[1] > getTime(chartData[i]))
              => closest[1] = chartData[Len(chartData)]

C17_Witness ==
    /\ closest # <<>>
    /\ Len(chartData) = 2
    /\ getTime(chartData[1]) < lookupDate[1] /\ lookupDate[1] < getTime(chartData[2])
    /\ getTime(chartData[2]) - lookupDate[1] < lookupDate[1] - getTime(chartData[1])
    /\ closest[1] = chartData[2]

\* ------------------------------------------------ claims on the CSV parser
\* the header of column index, and the cells the data rows have in it
HeaderAt(index) == trim(csvText[1][index])
ColumnCells(index) ==
    {trim(csvText[r][index]) : r \in {r \in 2..Len(csvText) : index <= Len(csvText[r])}}
ParsesFinite(cell) == parseFloat(cell).kind = "number"
HoldsRole(md, header) ==
    \/ md.dateTimeField = <<header>>
    \/ md.latitudeField = <<header>>
    \/ md.longitudeField = <<header>>
ScenarioNorth == ColumnText(<<<<"1">>, <<"2">>, Word.north, <<"4">>>>)

\* C18: a column that the numeric test classifies is numeric exactly when,
\* among its cells that are not missing (empty after trimming, "null",
\* "NULL", "undefined"), at least one parses as a finite number and none
\* fails to; otherwise it is categorical.  1, 2, "north", 4 is categorical.
C18_NumericIffAllParse ==
    parseResult # <<>> =>
        LET md == parseResult[1].metadata IN
        /\ \A index \in DOMAIN csvText[1] :
              LET header     == HeaderAt(index)
                  nonMissing == ColumnCells(index) \ MissingTokens
                  numeric    == /\ \E cell \in nonMissing : ParsesFinite(cell)
                                /\ \A cell \in nonMissing : ParsesFinite(cell)
              IN  ~HoldsRole(md, header) =>
                     /\ InSeq(header, md.numericFields) <=> numeric
                     /\ InSeq(header, md.categoricalFields) <=> ~numeric
        /\ csvText = ScenarioNorth =>
              /\ md.categoricalFields = <<Word.temp>>
              /\ md.numericFields = <<>>

C18_Witness ==
    /\ parseResult # <<>>
    /\ csvText = ScenarioNorth
    /\ parseResult[1].metadata.categoricalFields = <<Word.temp>>
    /\ parseResult[1].fields[1].dataType = "string"

\* the header rules for the three special roles
MatchesDateTime(header) ==
    \/ includes(toLowerCase(header), <<"d", "a", "t", "e">>)
    \/ includes(toLowerCase(header), <<"t", "i", "m", "e">>)
MatchesLatitude(header) ==
    \/ includes(toLowerCase(header), <<"l", "a", "t">>)
    \/ toLowerCase(header) = <<"y">>
MatchesLongitude(header) ==
    \/ includes(toLowerCase(header), <<"l", "o", "n">>)
    \/ includes(toLowerCase(header), <<"l", "n", "g">>)
    \/ toLowerCase(header) = <<"x">>
\* the first of the three rules that header i matches is one whose role an
\* earlier header of another name holds
MatchesTakenRule(md, i) ==
    LET header == md.headers[i]
        heldEarlier(role) ==
            \E j \in 1..(i - 1) : role = <<md.headers[j]>> /\ md.headers[j] # header
    IN  IF MatchesDateTime(header) THEN heldEarlier(md.dateTimeField)
        ELSE IF MatchesLatitude(header) THEN heldEarlier(md.latitudeField)
        ELSE MatchesLongitude(header) /\ heldEarlier(md.longitudeField)

\* C19: the header holding a special role matches the rule of that role, and
\* a later header whose rule (the first of the three it matches) has its role
\* already held is classified by the numeric test (numeric or categorical)
\* and holds no special role.
C19_TakenRuleFallsToNumericTest ==
    parseResult # <<>> =>
        LET md == parseResult[1].metadata IN
        /\ md.dateTimeField # <<>> => MatchesDateTime(md.dateTimeField[1])
        /\ md.latitudeField # <<>> => MatchesLatitude(md.latitudeField[1])
        /\ md.longitudeField # <<>> => MatchesLongitude(md.longitudeField[1])
        /\ \A i \in DOMAIN md.headers :
              MatchesTakenRule(md, i) =>
                  /\ ~HoldsRole(md, md.headers[i])
                  /\ \/ InSeq(md.headers[i], md.numericFields)
                     \/ InSeq(md.headers[i], md.categoricalFields)

\* the instants of the records, when every record has a valid one
HasInstant(dataPoint) ==
    /\ Get(dataPoint, Word.datetime).kind = "date"
    /\ Get(dataPoint, Word.datetime).time.kind = "number"
AllInstants(data) == \A i \in DOMAIN data : HasInstant(data[i])
Instant(dataPoint) == Get(dataPoint, Word.datetime).time.value

\* C20: in a numeric or categorical column, a cell holding a missing token
\* (empty, "null", "NULL", "undefined") is stored in its record as the
\* missing value and not as text, and when the state chart of that column
\* is drawn the record lies in a gap.
C20_MissingTokenStoredAsMissing ==
    parseResult # <<>> =>
        LET md   == parseResult[1].metadata
            data == parseResult[1].data
        IN  \A r \in DOMAIN data : \A index \in DOMAIN md.headers :
                (/\ ~HoldsRole(md, md.headers[index])
                 /\ index <= Len(csvText[r + 1])
                 /\ trim(csvText[r + 1][index]) \in MissingTokens)
                =>
                /\ isNullState(Get(data[r], md.headers[index]))
                /\ (segField = <<md.headers[index]>> /\ AllInstants(data)) =>
                       \E g \in DOMAIN nullGaps :
                          /\ nullGaps[g].start.time.value <= Instant(data[r])
                          /\ Instant(data[r]) <= nullGaps[g].end.time.value

\* -------------------------------------------- claims on the segment encoder
\* the segments and the gaps as one sequence of runs, sorted by start
RunsOf(segs, gaps) ==
    [i \in DOMAIN segs |-> [gap |-> FALSE, state |-> segs[i].state,
                            start |-> segs[i].start.time.value,
                            end |-> segs[i].end.time.value]]
    \o [i \in DOMAIN gaps |-> [gap |-> TRUE, state |-> <<>>,
                               start |-> gaps[i].start.time.value,
                               end |-> gaps[i].end.time.value]]
RECURSIVE InsertByStart(_, _)
InsertByStart(run, sorted) ==
    IF sorted = <<>> THEN <<run>>
    ELSE IF run.start <= sorted[1].start THEN <<run>> \o sorted
    ELSE <<sorted[1]>> \o InsertByStart(run, Tail(sorted))
RECURSIVE SortByStart(_)
SortByStart(q) == IF q = <<>> THEN <<>> ELSE InsertByStart(q[1], SortByStart(Tail(q)))
SortedRuns == SortByStart(RunsOf(segments, nullGaps))
\* the state chart of a field was drawn from records that all have instants
Encoded == segField # <<>> /\ AllInstants(parseResult[1].data)

\* C13: the segments and gaps of a field, sorted by start, are contiguous
\* (each ends where the next starts), do not overlap, start at the first
\* record's timestamp and end at the last record's timestamp.
C13_RunsTileTheTimeSpan ==
    Encoded =>
        LET data == parseResult[1].data
            runs == SortedRuns
        IN  /\ runs # <<>>
            /\ runs[1].start = Instant(data[1])
            /\ runs[Len(runs)].end = Instant(data[Len(data)])
            /\ \A k \in DOMAIN runs : runs[k].start <= runs[k].end
            /\ \A k \in 1..(Len(runs) - 1) : runs[k].end = runs[k + 1].start
            /\ \A k, l \in DOMAIN runs : k < l => runs[k].end <= runs[l].start

C13_Witness ==
    /\ Encoded
    /\ Len(parseResult[1].data) = MaxRows
    /\ Len(nullGaps) >= 1
    /\ Len(segments) >= 2

\* two neighbouring values between which a run ends
Differs(a, b) ==
    \/ isNullState(a) # isNullState(b)
    \/ ~isNullState(a) /\ ~isNullState(b) /\ a # b
InstantDate(n) == [kind |-> "date", time |-> Num(n)]
ScenarioStates  == ColumnText(<<<<"A">>, <<"A">>, <<"B">>, <<"B">>>>)
ScenarioMissing == ColumnText(<<<<"1">>, <<"2">>, Word.empty, <<"4">>>>)

\* C14: a run starts at the first record and exactly at the records whose
\* value differs from the one before (missing against non-missing, or two
\* different non-missing values); each run carries the value of the record
\* it starts at; no two neighbouring runs are both gaps or segments of the
\* same value.  A, A, B, B gives the segments {A, t1, t3} and {B, t3, t4};
\* 1, 2, missing, 4 gives exactly one gap, [t3, t4].
C14_RunsAreMaximal ==
    Encoded =>
        LET data == parseResult[1].data
            vals == [i \in DOMAIN data |-> Get(data[i], segField[1])]
            runStarts == {1} \cup {i \in 2..Len(data) : Differs(vals[i - 1], vals[i])}
            runs == SortedRuns
        IN  /\ Len(runs) = Cardinality(runStarts)
            /\ \A k \in DOMAIN runs : \E i \in runStarts :
                  /\ runs[k].start = Instant(data[i])
                  /\ runs[k].gap = isNullState(vals[i])
                  /\ ~runs[k].gap => runs[k].state = String(vals[i])
            /\ \A k \in 1..(Len(runs) - 1) :
                  /\ ~(runs[k].gap /\ runs[k + 1].gap)
                  /\ (~runs[k].gap /\ ~runs[k + 1].gap) => runs[k].state # runs[k + 1].state
            /\ csvText = ScenarioStates =>
                  /\ segments = <<[state |-> <<"A">>, start |-> InstantDate(1), end |-> InstantDate(3)],
                                  [state |-> <<"B">>, start |-> InstantDate(3), end |-> InstantDate(4)]>>
                  /\ nullGaps = <<>>
            /\ csvText = ScenarioMissing =>
                  nullGaps = <<[start |-> InstantDate(3), end |-> InstantDate(4)]>>

C14_Witness ==
    /\ Encoded
    /\ csvText = ScenarioStates
    /\ Len(segments) = 2

\* ------------------------------------------- claims on the plot fields
\* the published plot fields of a header line whose names are all different
FieldsOfDistinctHeaders ==
    /\ parseResult # <<>>
    /\ \A i, j \in DOMAIN parseResult[1].metadata.headers :
          parseResult[1].metadata.headers[i] = parseResult[1].metadata.headers[j] => i = j
FieldKeySeq == [i \in DOMAIN parseResult[1].fields |-> parseResult[1].fields[i].key]

\* C22 as stated: the plot fields are the headers without a special role,
\* in header order.
C22_FieldsInHeaderOrder ==
    FieldsOfDistinctHeaders =>
        LET md == parseResult[1].metadata
        IN  FieldKeySeq = SelectSeq(md.headers, LAMBDA h : ~HoldsRole(md, h))

\* C22: the plot fields are the numeric headers in header order followed by
\* the categorical headers in header order, each with the data type of its
\* group, and none of them is the datetime, latitude or longitude header.
C22_NumericThenCategorical ==
    FieldsOfDistinctHeaders =>
        LET md     == parseResult[1].metadata
            fields == parseResult[1].fields
            numericKeys == SelectSeq(md.headers, LAMBDA h : InSeq(h, md.numericFields))
        IN  /\ FieldKeySeq = numericKeys
                             \o SelectSeq(md.headers, LAMBDA h : InSeq(h, md.categoricalFields))
            /\ \A i \in DOMAIN fields :
                  /\ ~HoldsRole(md, fields[i].key)
                  /\ fields[i].dataType = IF i <= Len(numericKeys) THEN "number" ELSE "string"

C22_Witness ==
    /\ parseResult # <<>>
    /\ parseResult[1].metadata.headers = <<Word.status, Word.temp, Word.speed>>
    /\ FieldKeySeq = <<Word.temp, Word.speed, Word.status>>

\* the columns that parseCsv reads as the holder of a role: those whose
\* header is the role's field
ColumnsOf(md, role) == {i \in DOMAIN md.headers : role = <<md.headers[i]>>}

\* C23: at most one column is read as the datetime column, at most one as
\* latitude and at most one as longitude, and the header of such a column is
\* not listed among the numeric or the categorical fields.
C23_AtMostOneColumnPerRole ==
    parseResult # <<>> =>
        LET md == parseResult[1].metadata
        IN  /\ Cardinality(ColumnsOf(md, md.dateTimeField)) <= 1
            /\ Cardinality(ColumnsOf(md, md.latitudeField)) <= 1
            /\ Cardinality(ColumnsOf(md, md.longitudeField)) <= 1
            /\ \A i \in DOMAIN md.headers :
                  HoldsRole(md, md.headers[i]) =>
                      /\ ~InSeq(md.headers[i], md.numericFields)
                      /\ ~InSeq(md.headers[i], md.categoricalFields)

FirstOf(q, n) == SubSeq(q, 1, Min(n, Len(q)))

\* C26: the fields selected after a load are the first two numeric fields
\* and the first categorical field, in header order (fewer when there are
\* fewer), and no other.
C26_AutoSelectedFields ==
    FieldsOfDistinctHeaders =>
        LET md       == parseResult[1].metadata
            selected == selectedFields(parseResult[1].fields)
        IN  [i \in DOMAIN selected |-> selected[i].key]
            = FirstOf(SelectSeq(md.headers, LAMBDA h : InSeq(h, md.numericFields)), 2)
              \o FirstOf(SelectSeq(md.headers, LAMBDA h : InSeq(h, md.categoricalFields)), 1)

C26_Witness ==
    /\ parseResult # <<>>
    /\ parseResult[1].metadata.headers = <<Word.temp, Word.speed, Word.depth>>
    /\ Len(parseResult[1].fields) = 3
    /\ Len(selectedFields(parseResult[1].fields)) = 2
    /\ selectedFields(parseResult[1].fields)[2].key = Word.speed

\* C29: for a numeric field, the gaps that the line chart finds
\* (findNullGaps) are the gaps of the state chart's segments for the same
\* field and the same records: the same intervals in the same order.
C29_LineGapsAreSegmentGaps ==
    (/\ segField # <<>>
     /\ lineGaps # <<>>
     /\ lineGaps[1].key = segField[1])
    => lineGaps[1].gaps = nullGaps

C29_Witness ==
    /\ segField # <<>>
    /\ lineGaps # <<>>
    /\ lineGaps[1].key = segField[1]
    /\ Len(nullGaps) = 2
    /\ nullGaps[2].start = nullGaps[2].end
    /\ lineGaps[1].gaps = nullGaps

\* ------------------------------------------------ claims on the zoom calls
\* C24: when dataBounds is set, emitZoom of a range that starts at or before
\* dataBounds.start and ends at or after dataBounds.end stores exactly
\* dataBounds as the window.
C24_CoveringRangeStoresBounds ==
    [][\A r \in RequestedRanges :
          (/\ dataBounds # NULL
           /\ r.start <= dataBounds.start
           /\ r.end >= dataBounds.end
           /\ EmitZoom(r))
          => /\ zoomSubject'.start = dataBounds.start
             /\ zoomSubject'.end = dataBounds.end]_vars

C24_Witness ==
    /\ dataBounds # NULL
    /\ 0 < dataBounds.start
    /\ dataBounds.end < MaxT
    /\ zoomSubject = dataBounds

\* C21: loading the empty input fails: nothing (no records, no metadata, no
\* field descriptors) is published for it.
C21_EmptyInputPublishesNothing ==
    csvText = EmptyText => parseResult = <<>>

\* C27: the zoom$ observer of the state chart never fails, neither when it
\* is handed the current window on subscribing nor on a later emitZoom or
\* clearZoom, also when the loaded file has no data row.
C27_StateChartNeverThrows ==
    stateChart # <<>> => ~stateChart[1].error

\* what observer p of hover$ holds: the last value it was handed
Holds(p) == hoverRecv[p][Len(hoverRecv[p])]

\* C28: once mouseleave has run and no mousemove has followed, every hover$
\* observer that has been handed a value holds null, whatever time passes
\* and whether or not the throttle timer has ended since
C28_NullAfterLeave ==
    leaveAt # <<>> =>
        \A p \in hoverSubs : hoverRecv[p] # <<>> => Holds(p) = NULL

\* a mousemove was dropped inside the throttle window, the cursor left
\* before the window ended, and the timer has ended since
C28_Witness ==
    /\ leaveAt # <<>> /\ throttleLeft = <<>>
    /\ 1 \in hoverSubs /\ Len(hoverRecv[1]) >= 2
    /\ ~Used(Len(moveLog))
    /\ LET r == recomputeLog[Len(recomputeLog)]
       IN  /\ leaveAt[1] < r.at + ThrottleMs
           /\ NowMs >= r.at + ThrottleMs
\* r lies inside the bounds b, with start <= end
Inside(r, b) == b.start <= r.start /\ r.start <= r.end /\ r.end <= b.end

\* C30: onZoomOut on a window W with start <= end inside dataBounds stores a
\* window that contains W and lies inside dataBounds; with no window (the
\* full view) it sends nothing on zoom$ and leaves the window as it is.
C30_ZoomOutWidensWithinBounds ==
    [][ZoomOut =>
          IF zoomSubject = NULL
          THEN zoomSubject' = NULL /\ zoomRecv' = zoomRecv
          ELSE Inside(zoomSubject, dataBounds) =>
                  /\ zoomSubject'.start <= zoomSubject.start
                  /\ zoomSubject'.end >= zoomSubject.end
                  /\ Inside(zoomSubject', dataBounds)]_vars

\* a window of odd span was zoomed out: it grew on the left by a truncated
\* half span and on the right up to the bounds
C30_Witness ==
    /\ Len(zoomRecv[1]) >= 3
    /\ zoomRecv[1][2] # NULL /\ zoomRecv[1][3] # NULL
    /\ LET W == zoomRecv[1][2]
           Z == zoomRecv[1][3]
       IN  /\ Inside(W, dataBounds)
           /\ (W.end - W.start) % 2 = 1
           /\ dataBounds.start < Z.start /\ Z.start < W.start
           /\ W.end < Z.end /\ Z.end = dataBounds.end
====
